---------------------------- MODULE Spec2Model ----------------------------
(***************************************************************************)
(* A model of static/app.js, the AngularJS controller WeatherCtrl of the   *)
(* flask-weather-app: the search life cycle (vm.search and its promise     *)
(* handlers), the forecast grouping (buildGroupedForecast), the slot       *)
(* matching (vm.findForecastForSlot) and the temperature colouring         *)
(* (vm.tempStyle).                                                         *)
(*                                                                         *)
(* Conventions.  A JavaScript value that may be null is a record with a    *)
(* field "null"; a JavaScript array is the record Arr(s) of a sequence s.   *)
(* A forecast item (Sample) is [id, dt]: dt is item.dt, seconds since the  *)
(* epoch, and id is the identity of the object (its position in the list   *)
(* the response carried).  A number that JavaScript holds as a double is   *)
(* an exact rational [num, den] with den > 0.                              *)
(***************************************************************************)
EXTENDS Integers, Sequences, FiniteSets, TLC

VARIABLES
    vm,               \* the controller's fields (app.js 18-27)
    tz,               \* the viewer's UTC offset in seconds, used by Date's local getters
    pending,          \* ids of the searches whose fetch promise is not settled yet
    started,          \* history: number of calls of vm.search so far
    latestOverlapped, \* history: the newest search started while an older one was pending
    latestResp,       \* history: what the newest search's fetch settled with
    last,             \* history: the last step taken and the search it belongs to
    grpList,          \* argument of the buildGroupedForecast call under study
    grpCityTz,        \* city.timezone of the response that carried grpList
    grpOut,           \* its result
    slotItems,        \* arguments of the vm.findForecastForSlot call under study
    slotArg,
    slotOut,          \* its result
    tsCur,            \* the last vm.tempStyle call: [units, temp, style]
    tsPrev            \* the call before it

ctrlVars == <<vm, pending, started, latestOverlapped, latestResp, last>>
grpVars  == <<grpList, grpCityTz, grpOut>>
slotVars == <<slotItems, slotArg, slotOut>>
tsVars   == <<tsCur, tsPrev>>
vars     == <<vm, tz, pending, started, latestOverlapped, latestResp, last,
              grpList, grpCityTz, grpOut, slotItems, slotArg, slotOut, tsCur, tsPrev>>

-----------------------------------------------------------------------------
(* JavaScript values *)

Null    == "null"                       \* null where the other values are strings
NullRec == [null |-> TRUE]              \* null where the other values are records
NullArr == [null |-> TRUE, arr |-> <<>>]
Arr(s)  == [null |-> FALSE, arr |-> s]

Min(a, b) == IF a <= b THEN a ELSE b
Max(a, b) == IF a >= b THEN a ELSE b
Abs(a)    == IF a < 0 THEN -a ELSE a

RECURSIVE SetToSeq(_)
SetToSeq(S) == IF S = {} THEN <<>>
               ELSE LET x == CHOOSE y \in S : \A z \in S : y <= z
                    IN  <<x>> \o SetToSeq(S \ {x})

-----------------------------------------------------------------------------
(* Date: the local calendar fields of new Date(item.dt * 1000) *)

\* Local wall-clock seconds: the instant shifted by the viewer's UTC offset.
LocalSeconds(dt, off) == dt + off

\* Days since 1970-01-01 of the local date (floor division).
LocalDayNumber(dt, off) == LocalSeconds(dt, off) \div 86400

\* The proleptic Gregorian date <<year, month (1..12), day>> of a day number.
CivilFromDays(days) ==
    LET z   == days + 719468
        era == z \div 146097
        doe == z - era * 146097
        yoe == (doe - (doe \div 1460) + (doe \div 36524) - (doe \div 146096)) \div 365
        doy == doe - (365 * yoe + (yoe \div 4) - (yoe \div 100))
        mp  == (5 * doy + 2) \div 153
        d   == doy - ((153 * mp + 2) \div 5) + 1
        m   == IF mp < 10 THEN mp + 3 ELSE mp - 9
        y   == yoe + era * 400 + (IF m <= 2 THEN 1 ELSE 0)
    IN  <<y, m, d>>

\* date.getFullYear() + "-" + (date.getMonth() + 1) + "-" + date.getDate():
\* the three numbers joined by "-" are kept as a tuple (the join is injective).
DayKey(dt, off) == CivilFromDays(LocalDayNumber(dt, off))

\* date.getDay(): 0 = Sunday (1970-01-01 was a Thursday).
WeekDay(dt, off) == (LocalDayNumber(dt, off) + 4) % 7

\* date.toLocaleDateString(undefined, {weekday, month, day}): no year in it.
DayLabel(dt, off) ==
    LET c == DayKey(dt, off) IN <<WeekDay(dt, off), c[2], c[3]>>

\* new Date(it.dt * 1000).getHours()
GetHours(dt, off) == (LocalSeconds(dt, off) % 86400) \div 3600

-----------------------------------------------------------------------------
(* buildGroupedForecast (app.js 44-68) *)

MaxDays == 5          \* slice(0, 5)

\* Mutant: only the bucket created last is looked at.
KeyIndexLast(grouped, k) ==
    IF Len(grouped) > 0 /\ grouped[Len(grouped)].key = k THEN Len(grouped) ELSE 0

\* Index of the entry of the object `grouped` with key k, 0 when there is none.
\* grouped is a sequence of [key, label, items] in insertion order: the keys
\* are not integer-like strings, so Object.values lists them in that order.
KeyIndex(grouped, k) ==
    IF \E i \in 1..Len(grouped) : grouped[i].key = k
    THEN CHOOSE i \in 1..Len(grouped) : grouped[i].key = k
    ELSE 0

\* One turn of list.forEach: create the bucket if the key is new, push the item.
GroupStep(grouped, item, off) ==
    LET k == DayKey(item.dt, off)
        i == KeyIndex(grouped, k)
    IN  IF i = 0
        THEN Append(grouped, [key |-> k, label |-> DayLabel(item.dt, off),
                              items |-> <<item>>])
        ELSE [grouped EXCEPT ![i].items = Append(@, item)]

\* list.forEach over the first n items (the set binds the value of the
\* recursive call, so that it is computed once).
RECURSIVE GroupAll(_, _, _)
GroupAll(list, n, off) ==
    IF n = 0 THEN <<>>
    ELSE CHOOSE g \in {GroupStep(grouped, list[n], off) :
                           grouped \in {GroupAll(list, n - 1, off)}} : TRUE

\* Object.values(grouped): the buckets {label, items}, without their keys.
ObjectValues(grouped) ==
    [i \in 1..Len(grouped) |-> [label |-> grouped[i].label, items |-> grouped[i].items]]

\* Mutant: slice(-n), the last n buckets.
SliceTail(s, n) == SubSeq(s, Max(1, Len(s) - n + 1), Len(s))

\* slice(0, n)
Slice(s, n) == SubSeq(s, 1, Min(n, Len(s)))

buildGroupedForecast(list, off) ==
    IF list.null THEN <<>>
    ELSE Slice(ObjectValues(GroupAll(list.arr, Len(list.arr), off)), MaxDays)

-----------------------------------------------------------------------------
(* Inputs *)

\* Viewer offsets: UTC-5, UTC, UTC+5:30.
TzOffsets == {-18000, 0, 19800}
\* city.timezone of the response: the default query "Sagar,IN" is at UTC+5:30.
CityOffsets == {19800}

\* Timestamps on the provider's 3-hour grid, counted from 2024-02-27T00:00:00Z.
GridDt(k) == 1708992000 + 10800 * k
\* Steps of the grid used for grouping: 27 Feb 03:00 and 15:00, 28 Feb 00:00,
\* 29 Feb 21:00, 1 Mar 03:00, 2 Mar 21:00, 3 Mar 03:00 (UTC): six days in UTC,
\* four in UTC-5 and in UTC+5:30.
GrpSteps == {1, 5, 8, 23, 25, 39, 41}
GrpDts   == {GridDt(k) : k \in GrpSteps}

MaxLen == 6           \* longest list given to buildGroupedForecast

\* A forecast holds a timestamp once, in any order.
Distinct(f) == \A i, j \in DOMAIN f : i # j => f[i] # f[j]

\* The list of m items with the timestamps f[1..m]; the id is the position.
ListOf(f, m) == [i \in 1..m |-> [id |-> i, dt |-> f[i]]]

-----------------------------------------------------------------------------
(* The buildGroupedForecast call under study *)

InitGroupIdle ==
    /\ grpList = NullArr
    /\ grpCityTz = 0
    /\ grpOut = [done |-> FALSE, val |-> <<>>]

InitGroup ==
    /\ \/ grpList = NullArr
       \/ \E m \in 0..MaxLen : \E f \in [1..m -> GrpDts] :
              /\ Distinct(f)
              /\ grpList = Arr(ListOf(f, m))
    /\ grpCityTz \in CityOffsets
    /\ grpOut = [done |-> FALSE, val |-> <<>>]

CallGroup ==
    /\ ~grpOut.done
    /\ grpOut' = [done |-> TRUE, val |-> buildGroupedForecast(grpList, tz)]
    /\ UNCHANGED <<grpList, grpCityTz>>

-----------------------------------------------------------------------------
(* buildTimeSlots and vm.findForecastForSlot (app.js 71-101) *)

buildTimeSlots ==
    << [label |-> "Morning",   hours |-> Arr(<<6, 9, 12>>)],
       [label |-> "Afternoon", hours |-> Arr(<<12, 15, 18>>)],
       [label |-> "Evening",   hours |-> Arr(<<18, 21>>)],
       [label |-> "Night",     hours |-> Arr(<<0, 3, 21, 23>>)] >>

\* let best = null; let bestDiff = Infinity;
NoBest == [best |-> NullRec, inf |-> TRUE, diff |-> 0]

\* Mutant: diff <= bestDiff, the last of the nearest samples wins.
HourStepLastWins(acc, it, h, sh) ==
    LET diff == Abs(h - sh)
    IN  IF acc.inf \/ diff <= acc.diff
        THEN [best |-> it, inf |-> FALSE, diff |-> diff]
        ELSE acc

\* if (diff < bestDiff) { best = it; bestDiff = diff; }
HourStep(acc, it, h, sh) ==
    LET diff == Abs(h - sh)
    IN  IF acc.inf \/ diff < acc.diff
        THEN [best |-> it, inf |-> FALSE, diff |-> diff]
        ELSE acc

\* slot.hours.forEach over the first n hours
RECURSIVE HoursLoop(_, _, _, _, _)
HoursLoop(acc, it, h, hours, n) ==
    IF n = 0 THEN acc
    ELSE HourStep(HoursLoop(acc, it, h, hours, n - 1), it, h, hours[n])

\* items.forEach over the first n items
RECURSIVE ItemsLoop(_, _, _, _)
ItemsLoop(items, hours, n, off) ==
    IF n = 0 THEN NoBest
    ELSE HoursLoop(ItemsLoop(items, hours, n - 1, off), items[n],
                   GetHours(items[n].dt, off), hours, Len(hours))

findForecastForSlot(items, slot, off) ==
    IF items.null \/ slot.hours.null THEN NullRec
    ELSE ItemsLoop(items.arr, slot.hours.arr, Len(items.arr), off).best

\* One day of the 3-hour grid.
SlotDts  == {GridDt(k) : k \in 0..7}
MaxItems == 3         \* longest items list given to vm.findForecastForSlot

\* The four slots of the table, and a slot with no hours and one without the field.
SlotArgs ==
    {buildTimeSlots[i] : i \in 1..Len(buildTimeSlots)}
        \cup {[label |-> "Empty", hours |-> Arr(<<>>)], [label |-> "Bare", hours |-> NullArr]}

InitSlotIdle ==
    /\ slotItems = NullArr
    /\ slotArg = [label |-> "Bare", hours |-> NullArr]
    /\ slotOut = [done |-> FALSE, val |-> NullRec]

InitSlot ==
    /\ \/ slotItems = NullArr
       \/ \E m \in 0..MaxItems : \E f \in [1..m -> SlotDts] : slotItems = Arr(ListOf(f, m))
    /\ slotArg \in SlotArgs
    /\ slotOut = [done |-> FALSE, val |-> NullRec]

CallSlot ==
    /\ ~slotOut.done
    /\ slotOut' = [done |-> TRUE, val |-> findForecastForSlot(slotItems, slotArg, tz)]
    /\ UNCHANGED <<slotItems, slotArg>>

-----------------------------------------------------------------------------
(* vm.tempStyle (app.js 104-123) *)

\* Exact rationals for the doubles of tempStyle.
RECURSIVE Gcd(_, _)
Gcd(a, b)   == IF b = 0 THEN a ELSE Gcd(b, a % b)
\* The fraction n/d (d > 0) in lowest terms.
Rat(n, d)   == LET g == Gcd(Abs(n), d) IN [num |-> n \div g, den |-> d \div g]
RatLe(a, b) == a.num * b.den <= b.num * a.den
RatLt(a, b) == a.num * b.den < b.num * a.den
RatEq(a, b) == a.num * b.den = b.num * a.den
RatMin(a, b) == IF RatLe(a, b) THEN a ELSE b
RatMax(a, b) == IF RatLe(b, a) THEN a ELSE b
RatSub(a, b) == Rat(a.num * b.den - b.num * a.den, a.den * b.den)
RatMul(a, b) == Rat(a.num * b.num, a.den * b.den)
RatDiv(a, b) == IF b.num > 0 THEN Rat(a.num * b.den, a.den * b.num)
                ELSE Rat(-(a.num * b.den), a.den * (-b.num))
Int2Rat(n)   == Rat(n, 1)

\* The [min, max] domain of a unit system.
TempDomain(units) ==
    IF units = "imperial" THEN [min |-> -20, max |-> 110]
    ELSE IF units = "metric" THEN [min |-> -10, max |-> 45]
    ELSE [min |-> 260, max |-> 320]

\* Mutant: Math.max(min, temp), no upper clamp.
ClampLow(temp, dom) == RatMax(Int2Rat(dom.min), temp)

\* const clamped = Math.max(min, Math.min(temp, max));
Clamp(temp, dom) == RatMax(Int2Rat(dom.min), RatMin(temp, Int2Rat(dom.max)))

\* ratio = (clamped - min) / (max - min); hue = (1 - ratio) * 220
Hue(temp, units) ==
    LET dom   == TempDomain(units)
        ratio == RatDiv(RatSub(Clamp(temp, dom), Int2Rat(dom.min)),
                        Int2Rat(dom.max - dom.min))
    IN  RatMul(RatSub(Int2Rat(1), ratio), Int2Rat(220))

EmptyStyle == [null |-> FALSE, empty |-> TRUE]

tempStyle(temp, units) ==
    IF temp = NullRec THEN EmptyStyle
    ELSE LET hue == Hue(temp, units)
         IN  [null |-> FALSE, empty |-> FALSE, hue |-> hue,
              color |-> <<"hsl", hue, 70, 25>>,
              backgroundColor |-> <<"hsl", hue, 85, 90>>,
              borderRadius |-> "0.25rem", padding |-> "0.25rem"]

\* The values of the units select, and a value that is none of them.
UnitSystems == {"metric", "imperial", "standard", "other"}

\* Temperatures: every fifth degree of -TempBelow .. TempAbove, which holds the
\* six domain bounds, and some readings with a fractional part.
TempBelow == 25
TempAbove == 325
Temps ==
    {Rat(n, 1) : n \in {m \in (-TempBelow)..TempAbove : m % 5 = 0}}
        \cup {Rat(-81, 4), Rat(-21, 2), Rat(47, 2), Rat(181, 4), Rat(1093, 4), Rat(641, 2)}

NoCall == [called |-> FALSE]

InitTempIdle ==
    /\ tsCur = NoCall
    /\ tsPrev = NoCall

\* A cell of the table, or the current-weather card, is rendered.
CallTempStyle(t) ==
    /\ tsCur' = [called |-> TRUE, units |-> vm.units, temp |-> t,
                 style |-> tempStyle(t, vm.units)]
    /\ tsPrev' = tsCur

-----------------------------------------------------------------------------
(* WeatherCtrl: the fields and vm.search (app.js 17-27, 152-183) *)

\* vm.data = { forecast: { list: [] }, current: null, place: null }
BlankData ==
    [null |-> FALSE, forecast |-> [list |-> Arr(<<>>)], current |-> Null, place |-> Null]

\* The fields after lines 18-27, before the initial search.
Constructed ==
    [units |-> "metric", loading |-> FALSE, error |-> Null, data |-> BlankData,
     groupedForecast |-> <<>>, slots |-> <<>>]

\* Forecast lists a response may carry: none, empty, one item, and two items
\* three hours apart around midnight UTC.
CtrlLists ==
    {NullArr, Arr(<<>>), Arr(<<[id |-> 1, dt |-> GridDt(4)]>>),
     Arr(<<[id |-> 1, dt |-> GridDt(7)], [id |-> 2, dt |-> GridDt(8)]>>)}

\* What GET /api/weather answers with: no body, or {current, forecast, place}
\* where current may be null.
Payloads ==
    {NullRec} \cup
    {[null |-> FALSE, forecast |-> [list |-> l], current |-> c,
      place |-> IF c = Null THEN Null ELSE "Sagar"] :
        l \in CtrlLists, c \in {Null, "clear", "rain"}}

\* What the promise of fetchByCity rejects with: a response whose body names
\* the error, a response without one, and a timeout or network error (no body).
Rejections ==
    {[null |-> FALSE, data |-> [null |-> FALSE, error |-> "city not found"]],
     [null |-> FALSE, data |-> [null |-> FALSE, error |-> Null]],
     [null |-> FALSE, data |-> NullRec]}

\* vm.loading = true; vm.error = null;
SearchStart(v) == [v EXCEPT !.loading = TRUE, !.error = Null]

\* !data || !data.current
NoData(data) == data.null \/ data.current = Null

\* Mutant: the no-data branch leaves the Grid and the slots as they were.
OnFulfilledKeepGrid(v, data, off) ==
    IF NoData(data)
    THEN [v EXCEPT !.error = "No weather data found.", !.data = BlankData]
    ELSE [v EXCEPT !.data = data,
                   !.groupedForecast = buildGroupedForecast(data.forecast.list, off),
                   !.slots = buildTimeSlots]

\* Mutant: the no-data branch leaves vm.data as it was.
OnFulfilledKeepData(v, data, off) ==
    IF NoData(data)
    THEN [v EXCEPT !.error = "No weather data found.",
                   !.groupedForecast = <<>>,
                   !.slots = <<>>]
    ELSE [v EXCEPT !.data = data,
                   !.groupedForecast = buildGroupedForecast(data.forecast.list, off),
                   !.slots = buildTimeSlots]

\* .then(function (data) { ... })
OnFulfilled(v, data, off) ==
    IF NoData(data)
    THEN [v EXCEPT !.error = "No weather data found.",
                   !.data = BlankData,
                   !.groupedForecast = <<>>,
                   !.slots = <<>>]
    ELSE [v EXCEPT !.data = data,
                   !.groupedForecast = buildGroupedForecast(data.forecast.list, off),
                   !.slots = buildTimeSlots]

\* (err && err.data && err.data.error) ? err.data.error : "Failed to load weather."
ErrorText(err) ==
    IF ~err.null /\ ~err.data.null /\ err.data.error # Null
    THEN err.data.error
    ELSE "Failed to load weather."

\* .catch(function (err) { ... })
OnRejected(v, err) == [v EXCEPT !.error = ErrorText(err)]

\* .finally(function () { vm.loading = false; ... })
OnFinally(v) == [v EXCEPT !.loading = FALSE]

MaxSearches == 3      \* calls of vm.search in a run, the initial one included

NoResp == [kind |-> "none"]

\* The state after construction: line 183 has started the initial search.
InitCtrl ==
    /\ vm = SearchStart(Constructed)
    /\ pending = {1}
    /\ started = 1
    /\ latestOverlapped = FALSE
    /\ latestResp = NoResp
    /\ last = [kind |-> "start", id |-> 1]

\* The user submits the search form: vm.search().
Search ==
    /\ started < MaxSearches
    /\ vm' = SearchStart(vm)
    /\ pending' = pending \cup {started + 1}
    /\ started' = started + 1
    /\ latestOverlapped' = (pending # {})
    /\ latestResp' = NoResp
    /\ last' = [kind |-> "start", id |-> started + 1]

\* The fetch of search id resolves with a payload: the then handler and the
\* finally handler run in the same digest, with nothing in between.
Resolve(id, data) ==
    /\ id \in pending
    /\ vm' = OnFinally(OnFulfilled(vm, data, tz))
    /\ pending' = pending \ {id}
    /\ latestResp' = IF id = started THEN [kind |-> "data", data |-> data] ELSE latestResp
    /\ last' = [kind |-> IF data = NullRec \/ data.current = Null
                          THEN "nodata" ELSE "success", id |-> id]
    /\ UNCHANGED <<started, latestOverlapped>>

\* The fetch of search id rejects: the catch handler, then the finally handler.
Reject(id, err) ==
    /\ id \in pending
    /\ vm' = OnFinally(OnRejected(vm, err))
    /\ pending' = pending \ {id}
    /\ latestResp' = IF id = started THEN [kind |-> "error", err |-> err] ELSE latestResp
    /\ last' = [kind |-> "failure", id |-> id]
    /\ UNCHANGED <<started, latestOverlapped>>

\* The user picks another entry of the units select (ng-model vm.units).
SetUnits(u) ==
    /\ u # vm.units
    /\ vm' = [vm EXCEPT !.units = u]
    /\ UNCHANGED <<pending, started, latestOverlapped, latestResp, last>>

-----------------------------------------------------------------------------
(* Specifications *)

\* The search life cycle.
Init ==
    /\ tz \in TzOffsets
    /\ InitCtrl /\ InitGroupIdle /\ InitSlotIdle /\ InitTempIdle

StartSearch  == Search /\ UNCHANGED <<tz, grpVars, slotVars, tsVars>>
FetchResolve == \E id \in pending, d \in Payloads :
                    Resolve(id, d) /\ UNCHANGED <<tz, grpVars, slotVars, tsVars>>
FetchReject  == \E id \in pending, e \in Rejections :
                    Reject(id, e) /\ UNCHANGED <<tz, grpVars, slotVars, tsVars>>
PickUnits    == \E u \in UnitSystems :
                    SetUnits(u) /\ UNCHANGED <<tz, grpVars, slotVars, tsVars>>

Next == StartSearch \/ FetchResolve \/ FetchReject \/ PickUnits

Spec == Init /\ [][Next]_vars

\* buildGroupedForecast applied to every bounded list, under every viewer offset.
InitG ==
    /\ tz \in TzOffsets
    /\ InitCtrl /\ InitGroup /\ InitSlotIdle /\ InitTempIdle

NextG == CallGroup /\ UNCHANGED <<tz, ctrlVars, slotVars, tsVars>>

SpecGroup == InitG /\ [][NextG]_vars

\* vm.findForecastForSlot applied to every bounded items list and slot.
InitS ==
    /\ tz \in TzOffsets
    /\ InitCtrl /\ InitGroupIdle /\ InitSlot /\ InitTempIdle

NextS == CallSlot /\ UNCHANGED <<tz, ctrlVars, grpVars, tsVars>>

SpecSlot == InitS /\ [][NextS]_vars

\* vm.tempStyle called at render time, under every value of vm.units.
\* Picking other units starts a new series of calls.
InitT ==
    /\ tz = 0
    /\ InitCtrl /\ InitGroupIdle /\ InitSlotIdle /\ InitTempIdle

TempCall   == \E t \in Temps \cup {NullRec} :
                  CallTempStyle(t) /\ UNCHANGED <<vm, tz, pending, started,
                      latestOverlapped, latestResp, last, grpVars, slotVars>>
TempUnits  == \E u \in UnitSystems :
                  /\ SetUnits(u)
                  /\ tsCur' = NoCall /\ tsPrev' = NoCall
                  /\ UNCHANGED <<tz, grpVars, slotVars>>

NextT == TempCall \/ TempUnits

SpecTemp == InitT /\ [][NextT]_vars

-----------------------------------------------------------------------------
(* Claims about buildGroupedForecast, under SpecGroup *)

GList      == grpList.arr
GOut       == grpOut.val
GrpCalled  == grpOut.done /\ ~grpList.null

\* The local day of every sample of the list L.
KeysOf(L, off) == [i \in 1..Len(L) |-> DayKey(L[i].dt, off)]
\* The positions at which a day is met for the first time.
FirstIdx(key)  == {i \in DOMAIN key : \A j \in 1..(i - 1) : key[j] # key[i]}
\* The rank of every sample's day in first-encounter order.
RanksOf(key) ==
    LET first == FirstIdx(key)
    IN  [i \in DOMAIN key |->
            Cardinality({f \in first : \E j \in f..i : key[j] = key[i] /\
                                           \A k \in 1..(j - 1) : key[k] # key[i]})]
\* The places <<bucket, position>> of out that hold each sample of L.
PlacesOf(L, out) ==
    [i \in 1..Len(L) |->
        UNION {{<<b, p>> : p \in {q \in 1..Len(out[b].items) : out[b].items[q] = L[i]}} :
                  b \in 1..Len(out)}]

\* No bucket holds samples of two local days.
BucketsPure(out, off) ==
    \A b \in 1..Len(out) : \A p \in 1..Len(out[b].items) :
        DayKey(out[b].items[p].dt, off) = DayKey(out[b].items[1].dt, off)

\* The samples at the positions I are each in exactly one place, those of one
\* day in one bucket and in their order in the list.
GroupedOnce(I, key, places) ==
    /\ \A i \in I : Cardinality(places[i]) = 1
    /\ \A i, j \in I :
          (i < j /\ key[i] = key[j])
              => LET a == CHOOSE x \in places[i] : TRUE
                     c == CHOOSE x \in places[j] : TRUE
                 IN  a[1] = c[1] /\ a[2] < c[2]

\* C4 as stated: every sample of the input is in exactly one bucket of the
\* output, the samples of one local day are in one bucket in their original
\* order, and no bucket holds samples of two local days.
C4_AllSamplesGrouped ==
    GrpCalled =>
        LET key    == KeysOf(GList, tz)
            places == PlacesOf(GList, GOut)
        IN  GroupedOnce(DOMAIN key, key, places) /\ BucketsPure(GOut, tz)

\* C4 amended: the samples of the first five local days met are each in exactly
\* one bucket, those of one day in one bucket in their original order; the
\* samples of later days are in no bucket; no bucket holds two local days.
C4_KeptSamplesGrouped ==
    GrpCalled =>
        LET key    == KeysOf(GList, tz)
            rank   == RanksOf(key)
            places == PlacesOf(GList, GOut)
        IN  /\ GroupedOnce({i \in DOMAIN key : rank[i] <= 5}, key, places)
            /\ \A i \in DOMAIN key : rank[i] > 5 => places[i] = {}
            /\ BucketsPure(GOut, tz)

\* Same-day samples with a sample of another day between them were grouped.
C4_Witness ==
    /\ GrpCalled
    /\ LET key == KeysOf(GList, tz)
       IN  \E i, j, k \in DOMAIN key :
              i < j /\ j < k /\ key[i] = key[k] /\ key[j] # key[i]

\* C5: the output holds min(N, 5) buckets for an input of N local days, and
\* bucket b holds samples of the b-th day in first-encounter order, and only those.
C5_DayCap ==
    GrpCalled =>
        LET key   == KeysOf(GList, tz)
            first == FirstIdx(key)
            order == SetToSeq(first)
        IN  /\ Len(GOut) = Min(Cardinality(first), 5)
            /\ \A b \in 1..Len(GOut) :
                  /\ GOut[b].items # <<>>
                  /\ \A p \in 1..Len(GOut[b].items) :
                        DayKey(GOut[b].items[p].dt, tz) = key[order[b]]

\* An input of more than five local days, not in calendar order, was grouped.
C5_Witness ==
    /\ GrpCalled
    /\ Cardinality(FirstIdx(KeysOf(GList, tz))) > 5
    /\ Len(GOut) = 5
    /\ \E i \in 1..(Len(GList) - 1) : GList[i].dt > GList[i + 1].dt

\* The ids of the samples of each bucket.
IdGroups(out) ==
    [b \in 1..Len(out) |-> {out[b].items[p].id : p \in 1..Len(out[b].items)}]

\* C8: the buckets are the days local to the searched city (the timestamp
\* shifted by city.timezone), so that a viewer at any other UTC offset gets
\* the same grouping for the same response.
C8_CityLocalDays ==
    GrpCalled =>
        /\ BucketsPure(GOut, grpCityTz)
        /\ \A b, c \in 1..Len(GOut) :
              b # c => DayKey(GOut[b].items[1].dt, grpCityTz)
                          # DayKey(GOut[c].items[1].dt, grpCityTz)
        /\ \A off \in TzOffsets :
              IdGroups(buildGroupedForecast(grpList, off)) = IdGroups(GOut)

-----------------------------------------------------------------------------
(* Claims about vm.findForecastForSlot, under SpecSlot *)

SItems == slotItems.arr
SHours == slotArg.hours.arr

\* min over the slot's hours of |sampleLocalHour - targetHour|
SlotDist(it) ==
    LET D == {Abs(GetHours(it.dt, tz) - SHours[n]) : n \in 1..Len(SHours)}
    IN  CHOOSE d \in D : \A e \in D : d <= e

SlotCase ==
    /\ slotOut.done
    /\ ~slotItems.null /\ SItems # <<>>
    /\ ~slotArg.hours.null /\ SHours # <<>>

\* C6: for non-empty items and hours the result is a sample of items at minimal
\* distance from the slot's hours, and the first such sample of items.
C6_NearestFirst ==
    SlotCase =>
        /\ \E i \in 1..Len(SItems) : slotOut.val = SItems[i]
        /\ \A i \in 1..Len(SItems) : SlotDist(slotOut.val) <= SlotDist(SItems[i])
        /\ \A i \in 1..Len(SItems) :
              SItems[i].id < slotOut.val.id => SlotDist(SItems[i]) > SlotDist(slotOut.val)

\* A later sample ties with the one returned, and a nearer-looking first one lost.
C6_Witness ==
    /\ SlotCase
    /\ \E i \in 1..Len(SItems) :
          SItems[i].id > slotOut.val.id /\ SlotDist(SItems[i]) = SlotDist(slotOut.val)
    /\ slotOut.val.id > 1

-----------------------------------------------------------------------------
(* Claims about vm.tempStyle, under SpecTemp *)

\* The domains as the claim gives them.
ClaimMin(u) == IF u = "imperial" THEN -20 ELSE IF u = "metric" THEN -10 ELSE 260
ClaimMax(u) == IF u = "imperial" THEN 110 ELSE IF u = "metric" THEN 45 ELSE 320

Styled(c) == c.called /\ c.temp # NullRec

\* C7: the hue is 220 at and below min, 0 at and above max, within [0, 220],
\* and never larger for the warmer of two temperatures under the same units.
C7_HueMonotone ==
    Styled(tsCur) =>
        LET u == tsCur.units
            h == tsCur.style.hue
        IN  /\ u = vm.units
            /\ RatLe(tsCur.temp, Int2Rat(ClaimMin(u))) => RatEq(h, Int2Rat(220))
            /\ RatLe(Int2Rat(ClaimMax(u)), tsCur.temp) => RatEq(h, Int2Rat(0))
            /\ RatLe(Int2Rat(0), h) /\ RatLe(h, Int2Rat(220))
            /\ Styled(tsPrev) =>
                  /\ tsPrev.units = u
                  /\ RatLt(tsPrev.temp, tsCur.temp) => RatLe(h, tsPrev.style.hue)
                  /\ RatLt(tsCur.temp, tsPrev.temp) => RatLe(tsPrev.style.hue, h)

\* Under a units value that is none of the three, a reading below min was
\* styled and then one above max.
C7_Witness ==
    /\ Styled(tsCur) /\ Styled(tsPrev)
    /\ tsCur.units = "other"
    /\ RatLt(tsPrev.temp, Int2Rat(260))
    /\ RatLt(Int2Rat(320), tsCur.temp)

-----------------------------------------------------------------------------
(* Claims about vm.search, under Spec *)

\* C1: after the handlers of a search whose fetch failed, the Grid is empty,
\* an error message is set and loading is false.
C1_FailureClearsGrid ==
    last.kind = "failure" =>
        vm.groupedForecast = <<>> /\ vm.error # Null /\ vm.loading = FALSE

\* What the response r alone leaves on the screen.
ShownFrom(r) ==
    IF r.kind = "error"
    THEN vm.error = (IF r.err.data # NullRec /\ r.err.data.error # Null
                     THEN r.err.data.error ELSE "Failed to load weather.")
    ELSE IF r.data = NullRec \/ r.data.current = Null
    THEN /\ vm.data = BlankData
         /\ vm.groupedForecast = <<>>
         /\ vm.error = "No weather data found."
    ELSE /\ vm.data = r.data
         /\ vm.groupedForecast = buildGroupedForecast(r.data.forecast.list, tz)
         /\ vm.error = Null

\* C2: when search B was started before the fetch of an older search had
\* completed, then once no fetch is pending the visible data, Grid and error
\* are those of B's response.
C2_NewestWins ==
    (pending = {} /\ latestOverlapped) => ShownFrom(latestResp)

\* C3: after a fetch resolved without current conditions the Grid, the slots
\* and the data are reset, the error is "No weather data found." and loading
\* is false.
C3_NoDataResets ==
    last.kind = "nodata" =>
        /\ vm.groupedForecast = <<>>
        /\ vm.slots = <<>>
        /\ vm.data = BlankData
        /\ vm.error = "No weather data found."
        /\ vm.loading = FALSE

\* A later search resolved with a forecast list but no current conditions.
C3_Witness ==
    /\ last.kind = "nodata" /\ last.id = started /\ started > 1
    /\ latestResp.kind = "data"
    /\ latestResp.data # NullRec
    /\ latestResp.data.forecast.list.arr # <<>>

\* C9: loading is false only when no fetch is pending.
C9_LoadingWhilePending ==
    vm.loading = FALSE => pending = {}

=============================================================================
